---- MODULE Spec2Model ----
\* Model of convert-case-ts (src/src/index.ts): the runtime word splitter
\* splitWords, the five style conversions built on it, the four simple
\* transforms, pluralize / singularize, and the type-level word splitter
\* that computes the declared return types.
\*
\* A string is a sequence of one-character strings.  Each specification
\* draws its arguments from a small sample of the character classes the code
\* distinguishes: [a-z], [A-Z], a digit, the three documented delimiters, a
\* tab (matched by \s but not the space character), and for the suffix
\* rules the letters they test.
EXTENDS Integers, Sequences, FiniteSets, TLC

VARIABLES input, op, words, result, orig, callers, frames

vars == <<input, op, words, result, orig, callers, frames>>

\* ---------------------------------------------------------------- bounds
MaxLen == 4

\* ------------------------------------------------------------- alphabet
\* the letters of the model, in matching order: LowerList[i] and
\* UpperList[i] are the two cases of one ASCII letter
LowerList == <<"a", "b", "c", "e", "h", "i", "s", "x", "y", "z">>
UpperList == <<"A", "B", "C", "E", "H", "I", "S", "X", "Y", "Z">>

\* the character classes [a-z] and [A-Z]
LowerAZ == {LowerList[i] : i \in DOMAIN LowerList}
UpperAZ == {UpperList[i] : i \in DOMAIN UpperList}
Digits == {"1"}
Delimiters == {" ", "-", "_"}
Tab == "\t"
Letters == LowerAZ \cup UpperAZ

\* arguments of the style conversions and of the simple transforms
AsciiChars == {"a", "b", "A", "B"} \cup Digits \cup Delimiters
Chars == AsciiChars \cup {Tab}

\* the strings of length n over the alphabet A
StringsOver(A, n) == [1..n -> A]

Strings == UNION {StringsOver(Chars, n) : n \in 0..MaxLen}

\* ------------------------------------------------ String.prototype parts
\* String.prototype.toUpperCase / toLowerCase, one character
UpperMap ==
  [c \in LowerAZ |-> UpperList[CHOOSE i \in DOMAIN LowerList : LowerList[i] = c]]

LowerMap ==
  [c \in UpperAZ |-> LowerList[CHOOSE i \in DOMAIN UpperList : UpperList[i] = c]]

UpperOf(c) == IF c \in LowerAZ THEN UpperMap[c] ELSE c

LowerOf(c) == IF c \in UpperAZ THEN LowerMap[c] ELSE c

RECURSIVE toUpperCase(_)
toUpperCase(s) ==
  IF s = << >> THEN << >> ELSE <<UpperOf(Head(s))>> \o toUpperCase(Tail(s))

RECURSIVE toLowerCase(_)
toLowerCase(s) ==
  IF s = << >> THEN << >> ELSE <<LowerOf(Head(s))>> \o toLowerCase(Tail(s))

\* str.charAt(0): the empty string when str is empty
charAt0(s) == IF s = << >> THEN << >> ELSE <<Head(s)>>

\* str.slice(1)
slice1(s) == IF s = << >> THEN << >> ELSE Tail(s)

\* ------------------------------------------------------------ splitWords
\* variant: the g flag missing, only the first match is replaced
RECURSIVE replaceCamelFrom_first(_, _)
replaceCamelFrom_first(s, i) ==
  IF i > Len(s) THEN << >>
  ELSE IF i + 1 <= Len(s) /\ s[i] \in LowerAZ /\ s[i + 1] \in UpperAZ
       THEN <<s[i], " ">> \o SubSeq(s, i + 1, Len(s))
       ELSE <<s[i]>> \o replaceCamelFrom_first(s, i + 1)

\* variant: the replacement is ' $2', the lowercase letter is dropped
RECURSIVE replaceCamelFrom_drop(_, _)
replaceCamelFrom_drop(s, i) ==
  IF i > Len(s) THEN << >>
  ELSE IF i + 1 <= Len(s) /\ s[i] \in LowerAZ /\ s[i + 1] \in UpperAZ
       THEN <<" ", s[i + 1]>> \o replaceCamelFrom_drop(s, i + 2)
       ELSE <<s[i]>> \o replaceCamelFrom_drop(s, i + 1)

\* .replace(/([a-z])([A-Z])/g, '$1 $2'): leftmost non-overlapping matches
RECURSIVE replaceCamelFrom(_, _)
replaceCamelFrom(s, i) ==
  IF i > Len(s) THEN << >>
  ELSE IF i + 1 <= Len(s) /\ s[i] \in LowerAZ /\ s[i + 1] \in UpperAZ
       THEN <<s[i], " ", s[i + 1]>> \o replaceCamelFrom(s, i + 2)
       ELSE <<s[i]>> \o replaceCamelFrom(s, i + 1)

replaceCamel(s) == replaceCamelFrom(s, 1)

\* variant: /([A-Z][A-Z])([a-z])/g, the space lands after the whole run
RECURSIVE replacePascalFrom_afterRun(_, _)
replacePascalFrom_afterRun(s, i) ==
  IF i > Len(s) THEN << >>
  ELSE IF i + 2 <= Len(s) /\ s[i] \in UpperAZ /\ s[i + 1] \in UpperAZ
          /\ s[i + 2] \in LowerAZ
       THEN <<s[i], s[i + 1], " ", s[i + 2]>>
            \o replacePascalFrom_afterRun(s, i + 3)
       ELSE <<s[i]>> \o replacePascalFrom_afterRun(s, i + 1)

\* variant: /([A-Z])([A-Z])/g, the lowercase lookahead missing
RECURSIVE replacePascalFrom_anyUpper(_, _)
replacePascalFrom_anyUpper(s, i) ==
  IF i > Len(s) THEN << >>
  ELSE IF i + 1 <= Len(s) /\ s[i] \in UpperAZ /\ s[i + 1] \in UpperAZ
       THEN <<s[i], " ", s[i + 1]>> \o replacePascalFrom_anyUpper(s, i + 2)
       ELSE <<s[i]>> \o replacePascalFrom_anyUpper(s, i + 1)

\* .replace(/([A-Z])([A-Z][a-z])/g, '$1 $2')
RECURSIVE replacePascalFrom(_, _)
replacePascalFrom(s, i) ==
  IF i > Len(s) THEN << >>
  ELSE IF i + 2 <= Len(s) /\ s[i] \in UpperAZ /\ s[i + 1] \in UpperAZ
          /\ s[i + 2] \in LowerAZ
       THEN <<s[i], " ", s[i + 1], s[i + 2]>> \o replacePascalFrom(s, i + 3)
       ELSE <<s[i]>> \o replacePascalFrom(s, i + 1)

replacePascal(s) == replacePascalFrom(s, 1)

\* variant: the class [\s_], the hyphen missing
IsSeparator_noHyphen(c) == c \in {" ", Tab, "_"}

\* the character class [\s_-]: \s is every white-space character, of which
\* the alphabet holds the space and the tab
IsSeparator(c) == c \in {" ", Tab, "_", "-"}

\* index of the first character at or after i that is not a separator
RECURSIVE skipSeparators(_, _)
skipSeparators(s, i) ==
  IF i <= Len(s) /\ IsSeparator(s[i]) THEN skipSeparators(s, i + 1) ELSE i

\* .split(/[\s_-]+/): the pieces between the maximal separator runs, the
\* empty pieces at either end included; "".split(...) is [""]
RECURSIVE splitFrom(_, _, _)
splitFrom(s, i, acc) ==
  IF i > Len(s) THEN <<acc>>
  ELSE IF IsSeparator(s[i])
       THEN <<acc>> \o splitFrom(s, skipSeparators(s, i), << >>)
       ELSE splitFrom(s, i + 1, Append(acc, s[i]))

split(s) == splitFrom(s, 1, << >>)

\* variant: the filter missing
filterBoolean_none(ws) == ws

\* .filter(Boolean): the empty string is the only falsy string
filterBoolean(ws) == SelectSeq(ws, LAMBDA w : w # << >>)

splitWords(str) == filterBoolean(split(replacePascal(replaceCamel(str))))

\* ---------------------------------------------------------- Array parts
\* Array.prototype.join
RECURSIVE join(_, _)
join(ws, sep) ==
  IF ws = << >> THEN << >>
  ELSE IF Len(ws) = 1 THEN ws[1]
  ELSE ws[1] \o sep \o join(Tail(ws), sep)

\* variant: the rest of the word is not lower-cased
capitalizeWord_keepRest(word) == toUpperCase(charAt0(word)) \o slice1(word)

\* variant: the rest of the word taken from index 2, word.slice(2)
capitalizeWord_slice2(word) ==
  toUpperCase(charAt0(word)) \o toLowerCase(slice1(slice1(word)))

\* word.charAt(0).toUpperCase() + word.slice(1).toLowerCase()
capitalizeWord(word) == toUpperCase(charAt0(word)) \o toLowerCase(slice1(word))

\* variant: the second word is lower-cased like the first (index <= 1)
RECURSIVE mapCamel_secondLower(_, _)
mapCamel_secondLower(ws, index) ==
  IF ws = << >> THEN << >>
  ELSE <<IF index <= 1 THEN toLowerCase(Head(ws)) ELSE capitalizeWord(Head(ws))>>
       \o mapCamel_secondLower(Tail(ws), index + 1)

RECURSIVE mapCamel(_, _)
mapCamel(ws, index) ==
  IF ws = << >> THEN << >>
  ELSE <<IF index = 0 THEN toLowerCase(Head(ws)) ELSE capitalizeWord(Head(ws))>>
       \o mapCamel(Tail(ws), index + 1)

RECURSIVE mapPascal(_)
mapPascal(ws) ==
  IF ws = << >> THEN << >>
  ELSE <<capitalizeWord(Head(ws))>> \o mapPascal(Tail(ws))

\* variant: only the first character of each word is lower-cased
RECURSIVE mapLower_firstOnly(_)
mapLower_firstOnly(ws) ==
  IF ws = << >> THEN << >>
  ELSE <<toLowerCase(charAt0(Head(ws))) \o slice1(Head(ws))>>
       \o mapLower_firstOnly(Tail(ws))

RECURSIVE mapLower(_)
mapLower(ws) ==
  IF ws = << >> THEN << >>
  ELSE <<toLowerCase(Head(ws))>> \o mapLower(Tail(ws))

\* variant: only the first character of each word is upper-cased
RECURSIVE mapUpper_firstOnly(_)
mapUpper_firstOnly(ws) ==
  IF ws = << >> THEN << >>
  ELSE <<toUpperCase(charAt0(Head(ws))) \o slice1(Head(ws))>>
       \o mapUpper_firstOnly(Tail(ws))

RECURSIVE mapUpper(_)
mapUpper(ws) ==
  IF ws = << >> THEN << >>
  ELSE <<toUpperCase(Head(ws))>> \o mapUpper(Tail(ws))

\* ------------------------------------------------- the style conversions
camelCase(str) ==
  LET ws == splitWords(str)
  IN IF Len(ws) = 0 THEN << >> ELSE join(mapCamel(ws, 0), << >>)

pascalCase(str) ==
  LET ws == splitWords(str)
  IN IF Len(ws) = 0 THEN << >> ELSE join(mapPascal(ws), << >>)

\* variant: joined with the hyphen of kebabCase
snakeCase_hyphen(str) ==
  LET ws == splitWords(str)
  IN IF Len(ws) = 0 THEN << >> ELSE join(mapLower(ws), <<"-">>)

snakeCase(str) ==
  LET ws == splitWords(str)
  IN IF Len(ws) = 0 THEN << >> ELSE join(mapLower(ws), <<"_">>)

\* variant: the words are joined as they are, not lower-cased
kebabCase_keepCase(str) ==
  LET ws == splitWords(str)
  IN IF Len(ws) = 0 THEN << >> ELSE join(ws, <<"-">>)

kebabCase(str) ==
  LET ws == splitWords(str)
  IN IF Len(ws) = 0 THEN << >> ELSE join(mapLower(ws), <<"-">>)

screamingSnakeCase(str) ==
  LET ws == splitWords(str)
  IN IF Len(ws) = 0 THEN << >> ELSE join(mapUpper(ws), <<"_">>)

\* ---------------------------------------------------- simple transforms
uppercase(str) == toUpperCase(str)

lowercase(str) == toLowerCase(str)

\* variant: the rest is lower-cased, as the style conversions do per word
capitalize_lowerRest(str) ==
  toUpperCase(charAt0(str)) \o toLowerCase(slice1(str))

\* `${ str.charAt(0).toUpperCase() }${ str.slice(1) }`
capitalize(str) == toUpperCase(charAt0(str)) \o slice1(str)

uncapitalize(str) == toLowerCase(charAt0(str)) \o slice1(str)

\* ------------------------------------------------ pluralize / singularize
\* String.prototype.slice(start, end): a negative index counts from the
\* end, both are clamped to 0..length, an empty range gives ""
sliceIndex(n, k) == IF k < 0 THEN (IF n + k < 0 THEN 0 ELSE n + k)
                    ELSE (IF k > n THEN n ELSE k)

slice(s, start, end) ==
  LET from == sliceIndex(Len(s), start)
      to == sliceIndex(Len(s), end)
  IN IF from >= to THEN << >> ELSE SubSeq(s, from + 1, to)

\* str.slice(start)
sliceFrom(s, start) == slice(s, start, Len(s))

\* String.prototype.endsWith
endsWith(s, suffix) ==
  /\ Len(suffix) <= Len(s)
  /\ SubSeq(s, Len(s) - Len(suffix) + 1, Len(s)) = suffix

\* variant: 'z' missing from the list of endings that take "es"
pluralize_noZ(str) ==
  IF Len(str) = 0 THEN << >>
  ELSE IF str[Len(str)] = "y" THEN slice(str, 0, -1) \o <<"i", "e", "s">>
  ELSE LET last == str[Len(str)]
           last2 == sliceFrom(str, -2)
       IN IF \/ last = "s" \/ last = "x"
             \/ last2 = <<"c", "h">> \/ last2 = <<"s", "h">>
          THEN str \o <<"e", "s">>
          ELSE str \o <<"s">>

\* variant: the length guard missing; str[-1] is undefined, so "" gets "s"
pluralize_noGuard(str) ==
  IF Len(str) > 0 /\ str[Len(str)] = "y"
  THEN slice(str, 0, -1) \o <<"i", "e", "s">>
  ELSE LET last2 == sliceFrom(str, -2)
       IN IF \/ (Len(str) > 0 /\ str[Len(str)] \in {"s", "x", "z"})
             \/ last2 = <<"c", "h">> \/ last2 = <<"s", "h">>
          THEN str \o <<"e", "s">>
          ELSE str \o <<"s">>

\* variant: the 'y' rule cuts two characters, slice(0, -2)
pluralize_slice2(str) ==
  IF Len(str) = 0 THEN << >>
  ELSE IF str[Len(str)] = "y" THEN slice(str, 0, -2) \o <<"i", "e", "s">>
  ELSE LET last == str[Len(str)]
           last2 == sliceFrom(str, -2)
       IN IF \/ last = "s" \/ last = "x" \/ last = "z"
             \/ last2 = <<"c", "h">> \/ last2 = <<"s", "h">>
          THEN str \o <<"e", "s">>
          ELSE str \o <<"s">>

\* variant: a word that already ends with 's' is returned as it is
pluralize_keepS(str) ==
  IF Len(str) = 0 THEN << >>
  ELSE IF str[Len(str)] = "y" THEN slice(str, 0, -1) \o <<"i", "e", "s">>
  ELSE LET last == str[Len(str)]
           last2 == sliceFrom(str, -2)
       IN IF last = "s" THEN str
          ELSE IF \/ last = "x" \/ last = "z"
                  \/ last2 = <<"c", "h">> \/ last2 = <<"s", "h">>
          THEN str \o <<"e", "s">>
          ELSE str \o <<"s">>

pluralize(str) ==
  IF Len(str) = 0 THEN << >>
  ELSE IF str[Len(str)] = "y" THEN slice(str, 0, -1) \o <<"i", "e", "s">>
  ELSE LET last == str[Len(str)]
           last2 == sliceFrom(str, -2)
       IN IF \/ last = "s" \/ last = "x" \/ last = "z"
             \/ last2 = <<"c", "h">> \/ last2 = <<"s", "h">>
          THEN str \o <<"e", "s">>
          ELSE str \o <<"s">>

\* variant: 'x' missing from the characters that may precede "es"
stripsEs_noX(s) ==
  /\ endsWith(s, <<"e", "s">>)
  /\ Len(s) > 2
  /\ LET before == slice(s, -4, -2)
         charBefore == s[Len(s) - 2]
     IN \/ before = <<"c", "h">> \/ before = <<"s", "h">>
        \/ before = <<"s", "s">>
        \/ charBefore = "s" \/ charBefore = "z"

\* the "es" rule of singularize: the test of lines 380-388
stripsEs(s) ==
  /\ endsWith(s, <<"e", "s">>)
  /\ Len(s) > 2
  /\ LET before == slice(s, -4, -2)
         charBefore == s[Len(s) - 2]
     IN \/ before = <<"c", "h">> \/ before = <<"s", "h">>
        \/ before = <<"s", "s">>
        \/ charBefore = "s" \/ charBefore = "x" \/ charBefore = "z"

\* variant: the length guard of the "ies" rule missing
singularize_noIesGuard(str) ==
  IF Len(str) = 0 THEN str
  ELSE IF endsWith(str, <<"i", "e", "s">>)
       THEN slice(str, 0, -3) \o <<"y">>
  ELSE IF stripsEs(str) THEN slice(str, 0, -2)
  ELSE IF endsWith(str, <<"s">>) /\ Len(str) > 1 THEN slice(str, 0, -1)
  ELSE str

\* variant: the "es" rule missing
singularize_noEs(str) ==
  IF Len(str) = 0 THEN str
  ELSE IF endsWith(str, <<"i", "e", "s">>) /\ Len(str) > 3
       THEN slice(str, 0, -3) \o <<"y">>
  ELSE IF endsWith(str, <<"s">>) /\ Len(str) > 1 THEN slice(str, 0, -1)
  ELSE str

\* variant: the length guard of the "s" rule missing
singularize_noSGuard(str) ==
  IF Len(str) = 0 THEN str
  ELSE IF endsWith(str, <<"i", "e", "s">>) /\ Len(str) > 3
       THEN slice(str, 0, -3) \o <<"y">>
  ELSE IF stripsEs(str) THEN slice(str, 0, -2)
  ELSE IF endsWith(str, <<"s">>) THEN slice(str, 0, -1)
  ELSE str

singularize(str) ==
  IF Len(str) = 0 THEN str
  ELSE IF endsWith(str, <<"i", "e", "s">>) /\ Len(str) > 3
       THEN slice(str, 0, -3) \o <<"y">>
  ELSE IF stripsEs(str) THEN slice(str, 0, -2)
  ELSE IF endsWith(str, <<"s">>) /\ Len(str) > 1 THEN slice(str, 0, -1)
  ELSE str

\* ------------------------------------------ the declared return types
\* C extends Uppercase<C>, C extends Lowercase<C>, Lowercase<C> extends C,
\* for a one-character literal type C
ExtendsUppercaseOf(c) == c = UpperOf(c)

ExtendsLowercaseOf(c) == c = LowerOf(c)

LowercaseExtends(c) == LowerOf(c) = c

\* SplitByDelimiters<S>: cut at the first ' ', '-' or '_', skip an empty
\* Word, recurse on Rest
RECURSIVE SplitByDelimiters(_)
SplitByDelimiters(S) ==
  IF \E i \in 1..Len(S) : S[i] \in {" ", "-", "_"}
  THEN LET i == CHOOSE k \in 1..Len(S) :
                  /\ S[k] \in {" ", "-", "_"}
                  /\ \A j \in 1..(k - 1) : S[j] \notin {" ", "-", "_"}
           Word == SubSeq(S, 1, i - 1)
           Rest == SubSeq(S, i + 1, Len(S))
       IN IF Word = << >> THEN SplitByDelimiters(Rest)
          ELSE <<Word>> \o SplitByDelimiters(Rest)
  ELSE IF S = << >> THEN << >> ELSE <<S>>

\* SplitCamelCase<S, Acc>
RECURSIVE SplitCamelCase(_, _)
SplitCamelCase(S, Acc) ==
  IF S = << >> THEN (IF Acc = << >> THEN << >> ELSE <<Acc>>)
  ELSE
    LET Char == Head(S)
        Rest == Tail(S)
    IN IF ~ExtendsUppercaseOf(Char)
       THEN SplitCamelCase(Rest, Append(Acc, Char))
       ELSE IF LowercaseExtends(Char)
       THEN SplitCamelCase(Rest, Append(Acc, Char))
       ELSE IF Acc = << >>
       THEN SplitCamelCase(Rest, <<Char>>)
       ELSE IF Rest = << >>
       THEN <<Append(Acc, Char)>>
       ELSE IF ExtendsLowercaseOf(Head(Rest))
       THEN (IF LowercaseExtends(Head(Rest))
             THEN <<Acc>> \o SplitCamelCase(S, << >>)
             ELSE SplitCamelCase(Rest, Append(Acc, Char)))
       ELSE IF Acc = toLowerCase(Acc)
       THEN <<Acc>> \o SplitCamelCase(S, << >>)
       ELSE SplitCamelCase(Rest, Append(Acc, Char))

\* SplitSegments<T>
RECURSIVE SplitSegments(_)
SplitSegments(T) ==
  IF T = << >> THEN << >>
  ELSE SplitCamelCase(Head(T), << >>) \o SplitSegments(Tail(T))

\* Words<S>
Words(S) == SplitSegments(SplitByDelimiters(S))

\* Capitalize<Lowercase<First>>
CapitalizeLowercase(First) ==
  LET low == toLowerCase(First)
  IN toUpperCase(charAt0(low)) \o slice1(low)

RECURSIVE CamelCaseRest(_)
CamelCaseRest(T) ==
  IF T = << >> THEN << >>
  ELSE CapitalizeLowercase(Head(T)) \o CamelCaseRest(Tail(T))

CamelCaseType(S) ==
  LET W == Words(S)
  IN IF W # << >> THEN toLowerCase(Head(W)) \o CamelCaseRest(Tail(W))
     ELSE toLowerCase(S)

PascalCaseType(S) ==
  LET W == Words(S)
  IN IF W # << >> THEN CapitalizeLowercase(Head(W)) \o CamelCaseRest(Tail(W))
     ELSE CapitalizeLowercase(S)

RECURSIVE SnakeCaseRest(_)
SnakeCaseRest(T) ==
  IF T = << >> THEN << >>
  ELSE <<"_">> \o toLowerCase(Head(T)) \o SnakeCaseRest(Tail(T))

SnakeCaseType(S) ==
  LET W == Words(S)
  IN IF W # << >> THEN toLowerCase(Head(W)) \o SnakeCaseRest(Tail(W))
     ELSE toLowerCase(S)

RECURSIVE KebabCaseRest(_)
KebabCaseRest(T) ==
  IF T = << >> THEN << >>
  ELSE <<"-">> \o toLowerCase(Head(T)) \o KebabCaseRest(Tail(T))

KebabCaseType(S) ==
  LET W == Words(S)
  IN IF W # << >> THEN toLowerCase(Head(W)) \o KebabCaseRest(Tail(W))
     ELSE toLowerCase(S)

RECURSIVE ScreamingSnakeCaseRest(_)
ScreamingSnakeCaseRest(T) ==
  IF T = << >> THEN << >>
  ELSE <<"_">> \o toUpperCase(Head(T)) \o ScreamingSnakeCaseRest(Tail(T))

ScreamingSnakeCaseType(S) ==
  LET W == Words(S)
  IN IF W # << >> THEN toUpperCase(Head(W)) \o ScreamingSnakeCaseRest(Tail(W))
     ELSE toUpperCase(S)

\* Pluralize<S>, lines 133-138: `${infer Rest}y` matches a string that ends
\* with 'y' (Rest may be empty); the empty string matches neither pattern
PluralizeType(S) ==
  IF endsWith(S, <<"y">>) THEN SubSeq(S, 1, Len(S) - 1) \o <<"i", "e", "s">>
  ELSE IF \E suf \in {<<"s">>, <<"x">>, <<"z">>, <<"c", "h">>, <<"s", "h">>} :
            endsWith(S, suf)
       THEN S \o <<"e", "s">>
       ELSE S \o <<"s">>

\* Singularize<S>, lines 143-158: the first pattern that S ends with, in
\* order; no pattern looks at the length of S
SingularizeType(S) ==
  LET Rest(n) == SubSeq(S, 1, Len(S) - n)
  IN IF endsWith(S, <<"i", "e", "s">>) THEN Rest(3) \o <<"y">>
     ELSE IF endsWith(S, <<"s", "e", "s">>) THEN Rest(3) \o <<"s">>
     ELSE IF endsWith(S, <<"x", "e", "s">>) THEN Rest(3) \o <<"x">>
     ELSE IF endsWith(S, <<"z", "e", "s">>) THEN Rest(3) \o <<"z">>
     ELSE IF endsWith(S, <<"c", "h", "e", "s">>) THEN Rest(4) \o <<"c", "h">>
     ELSE IF endsWith(S, <<"s", "h", "e", "s">>) THEN Rest(4) \o <<"s", "h">>
     ELSE IF endsWith(S, <<"s">>) THEN Rest(1)
     ELSE S

\* ------------------------------------------------------- state machine
\* input: the argument; op: the conversion last called on it; words: the
\* local `words` of that call; result: its return value.  orig: the string
\* a chain of conversions started from.  callers, frames: the calls in
\* progress when several callers use the module at once, and the parameter
\* and local of each activation.
NoCalls == callers = << >> /\ frames = << >>

Styles == {"camelCase", "pascalCase", "snakeCase", "kebabCase",
           "screamingSnakeCase"}

Init ==
  /\ input \in Strings
  /\ op = "none"
  /\ words = << >>
  /\ result = << >>
  /\ orig = input
  /\ NoCalls

CallCamelCase ==
  /\ op' = "camelCase"
  /\ words' = splitWords(input)
  /\ result' = camelCase(input)
  /\ UNCHANGED <<input, orig, callers, frames>>

CallPascalCase ==
  /\ op' = "pascalCase"
  /\ words' = splitWords(input)
  /\ result' = pascalCase(input)
  /\ UNCHANGED <<input, orig, callers, frames>>

CallSnakeCase ==
  /\ op' = "snakeCase"
  /\ words' = splitWords(input)
  /\ result' = snakeCase(input)
  /\ UNCHANGED <<input, orig, callers, frames>>

CallKebabCase ==
  /\ op' = "kebabCase"
  /\ words' = splitWords(input)
  /\ result' = kebabCase(input)
  /\ UNCHANGED <<input, orig, callers, frames>>

CallScreamingSnakeCase ==
  /\ op' = "screamingSnakeCase"
  /\ words' = splitWords(input)
  /\ result' = screamingSnakeCase(input)
  /\ UNCHANGED <<input, orig, callers, frames>>

Next ==
  \/ CallCamelCase
  \/ CallPascalCase
  \/ CallSnakeCase
  \/ CallKebabCase
  \/ CallScreamingSnakeCase

Spec == Init /\ [][Next]_vars

\* ------------------------------------- simple transforms as operations
SimpleOps == {"uppercase", "lowercase", "capitalize", "uncapitalize"}

CallUppercase ==
  /\ op' = "uppercase"
  /\ words' = << >>
  /\ result' = uppercase(input)
  /\ UNCHANGED <<input, orig, callers, frames>>

CallLowercase ==
  /\ op' = "lowercase"
  /\ words' = << >>
  /\ result' = lowercase(input)
  /\ UNCHANGED <<input, orig, callers, frames>>

CallCapitalize ==
  /\ op' = "capitalize"
  /\ words' = << >>
  /\ result' = capitalize(input)
  /\ UNCHANGED <<input, orig, callers, frames>>

CallUncapitalize ==
  /\ op' = "uncapitalize"
  /\ words' = << >>
  /\ result' = uncapitalize(input)
  /\ UNCHANGED <<input, orig, callers, frames>>

NextSimple ==
  \/ CallUppercase
  \/ CallLowercase
  \/ CallCapitalize
  \/ CallUncapitalize

SpecSimple == Init /\ [][NextSimple]_vars

\* ------------------------------------------- the suffix engines as operations
MaxSuffixLen == 4

\* the letters the suffix rules test, a letter they do not ("a"), an
\* uppercase letter and a delimiter
SuffixChars == {"y", "s", "x", "z", "c", "h", "e", "i", "a", "A", "_"}

SuffixStrings == UNION {StringsOver(SuffixChars, n) : n \in 0..MaxSuffixLen}

SuffixOps == {"pluralize", "singularize"}

InitSuffix ==
  /\ input \in SuffixStrings
  /\ op = "none"
  /\ words = << >>
  /\ result = << >>
  /\ orig = input
  /\ NoCalls

CallPluralize ==
  /\ op' = "pluralize"
  /\ words' = << >>
  /\ result' = pluralize(input)
  /\ UNCHANGED <<input, orig, callers, frames>>

CallSingularize ==
  /\ op' = "singularize"
  /\ words' = << >>
  /\ result' = singularize(input)
  /\ UNCHANGED <<input, orig, callers, frames>>

NextSuffix ==
  \/ CallPluralize
  \/ CallSingularize

SpecSuffix == InitSuffix /\ [][NextSuffix]_vars

\* --------------------------------------------- all eleven operations
MaxAllLen == 2

AllStrings ==
  UNION {StringsOver(Chars \cup SuffixChars, n) : n \in 0..MaxAllLen}

InitAll ==
  /\ input \in AllStrings
  /\ op = "none"
  /\ words = << >>
  /\ result = << >>
  /\ orig = input
  /\ NoCalls

NextAll ==
  \/ Next
  \/ NextSimple
  \/ NextSuffix

SpecAll == InitAll /\ [][NextAll]_vars

\* ------------------------------------------------- keys as arguments
MaxKeyLen == 6

\* one or more non-empty words over KeyChars joined by single joiners
KeyChars == {"a", "b", "1"}

IsKey(s, joiner) ==
  /\ Len(s) > 0
  /\ s[1] # joiner
  /\ s[Len(s)] # joiner
  /\ \A i \in 1..(Len(s) - 1) : ~(s[i] = joiner /\ s[i + 1] = joiner)

KeysJoinedBy(joiner) ==
  {s \in UNION {StringsOver(KeyChars \cup {joiner}, n) : n \in 1..MaxKeyLen} :
     IsKey(s, joiner)}

InitKey ==
  /\ input \in KeysJoinedBy("_") \cup KeysJoinedBy("-")
  /\ op = "none"
  /\ words = << >>
  /\ result = << >>
  /\ orig = input
  /\ NoCalls

SpecKey == InitKey /\ [][Next]_vars

\* ------------------------------------------- conversions applied in a chain
MaxChainLen == 4

ChainStrings == UNION {StringsOver(AsciiChars, n) : n \in 0..MaxChainLen}

InitChain ==
  /\ input \in ChainStrings
  /\ op = "none"
  /\ words = << >>
  /\ result = << >>
  /\ orig = input
  /\ NoCalls

\* the caller passes the string a conversion returned as the argument of the
\* next call
Feed ==
  /\ op \in Styles
  /\ input' = result
  /\ op' = "none"
  /\ words' = << >>
  /\ result' = << >>
  /\ UNCHANGED <<orig, callers, frames>>

NextChain ==
  \/ Next
  \/ Feed

SpecChain == InitChain /\ [][NextChain]_vars

\* chains of the three delimiter-joined styles only
NextJoinerChain ==
  \/ CallSnakeCase
  \/ CallKebabCase
  \/ CallScreamingSnakeCase
  \/ Feed

SpecJoinerChain == InitChain /\ [][NextJoinerChain]_vars

\* --------------------------------------------- several callers at once
\* Each call runs in its own activation: the parameter `str` and, in a style
\* conversion, the local `words`.  A call is entered, a style conversion then
\* splits, and the call returns; steps of different callers interleave.
NumCallers == 2

Callers == 1..NumCallers

\* the arguments callers pass
CallArgs == {<<"a", "B">>, <<"B", "_", "y">>, <<"s">>}

AllOps == Styles \cup SimpleOps \cup SuffixOps

\* variant: every activation uses the same storage, as a module-level
\* variable would
frameOf_shared(caller) == 1

\* the activation a caller's call runs in
frameOf(caller) == caller

\* the return expression of each function, over its parameter and local
ReturnOf(name, frame) ==
  LET str == frame.str
      ws == frame.words
  IN CASE name = "camelCase" ->
            IF Len(ws) = 0 THEN << >> ELSE join(mapCamel(ws, 0), << >>)
       [] name = "pascalCase" ->
            IF Len(ws) = 0 THEN << >> ELSE join(mapPascal(ws), << >>)
       [] name = "snakeCase" ->
            IF Len(ws) = 0 THEN << >> ELSE join(mapLower(ws), <<"_">>)
       [] name = "kebabCase" ->
            IF Len(ws) = 0 THEN << >> ELSE join(mapLower(ws), <<"-">>)
       [] name = "screamingSnakeCase" ->
            IF Len(ws) = 0 THEN << >> ELSE join(mapUpper(ws), <<"_">>)
       [] name = "uppercase" -> uppercase(str)
       [] name = "lowercase" -> lowercase(str)
       [] name = "capitalize" -> capitalize(str)
       [] name = "uncapitalize" -> uncapitalize(str)
       [] name = "pluralize" -> pluralize(str)
       [] name = "singularize" -> singularize(str)

InitCalls ==
  /\ input = << >>
  /\ op = "none"
  /\ words = << >>
  /\ result = << >>
  /\ orig = << >>
  /\ callers = [c \in Callers |->
                  [arg |-> << >>, op |-> "none", pc |-> "idle",
                   result |-> << >>]]
  /\ frames = [f \in Callers |-> [str |-> << >>, words |-> << >>]]

\* a caller calls one of the eleven functions with an argument
Enter(c) ==
  /\ callers[c].pc = "idle"
  /\ \E a \in CallArgs, name \in AllOps :
       /\ callers' = [callers EXCEPT ![c] =
                        [arg |-> a, op |-> name, pc |-> "entered",
                         result |-> << >>]]
       /\ frames' = [frames EXCEPT ![frameOf(c)] =
                       [str |-> a, words |-> << >>]]
  /\ UNCHANGED <<input, op, words, result, orig>>

\* const words = splitWords(str)
Split(c) ==
  /\ callers[c].pc = "entered"
  /\ callers[c].op \in Styles
  /\ frames' = [frames EXCEPT ![frameOf(c)].words =
                  splitWords(frames[frameOf(c)].str)]
  /\ callers' = [callers EXCEPT ![c].pc = "split"]
  /\ UNCHANGED <<input, op, words, result, orig>>

\* the return statement
Return(c) ==
  /\ \/ callers[c].pc = "split"
     \/ callers[c].pc = "entered" /\ callers[c].op \notin Styles
  /\ callers' = [callers EXCEPT
                   ![c].result = ReturnOf(callers[c].op, frames[frameOf(c)]),
                   ![c].pc = "returned"]
  /\ UNCHANGED <<input, op, words, result, orig, frames>>

NextCalls ==
  \E c \in Callers :
    \/ Enter(c)
    \/ Split(c)
    \/ Return(c)

SpecCalls == InitCalls /\ [][NextCalls]_vars

TypeOK ==
  /\ input \in Seq(Chars \cup SuffixChars)
  /\ result \in Seq(Letters \cup Digits \cup Delimiters \cup {Tab})
  /\ op \in Styles \cup SimpleOps \cup SuffixOps \cup {"none"}

\* ------------------------------------------------- vocabulary of the claims
Called == op \in Styles

IsAscii(s) ==
  \A i \in 1..Len(s) : s[i] \in (Letters \cup Digits \cup Delimiters)

RECURSIVE Flatten(_)
Flatten(ws) == IF ws = << >> THEN << >> ELSE Head(ws) \o Flatten(Tail(ws))

\* total length of the first k words
RECURSIVE SumLen(_, _)
SumLen(ws, k) == IF k = 0 THEN 0 ELSE Len(ws[k]) + SumLen(ws, k - 1)

\* the word boundaries, as offsets into the concatenation of the words
Cuts(ws) == {SumLen(ws, k) : k \in 1..(Len(ws) - 1)}

\* characters that survive splitting
Survives(c) == c \notin (Delimiters \cup {Tab})

\* offset of input position i in the concatenation of the words
Rank(s, i) == Cardinality({j \in 1..i : Survives(s[j])})

Conv(style, s) ==
  CASE style = "camelCase" -> camelCase(s)
    [] style = "pascalCase" -> pascalCase(s)
    [] style = "snakeCase" -> snakeCase(s)
    [] style = "kebabCase" -> kebabCase(s)
    [] style = "screamingSnakeCase" -> screamingSnakeCase(s)

\* the word sequence cased per the style table: first character of a word
\* upper-cased where the table capitalizes, every other character lower-cased
TableWords(ws, capFirst, capRest) ==
  [k \in 1..Len(ws) |->
    [j \in 1..Len(ws[k]) |->
      IF j = 1 /\ ((k = 1 /\ capFirst) \/ (k > 1 /\ capRest))
      THEN UpperOf(ws[k][j]) ELSE LowerOf(ws[k][j])]]

\* words k, character j of the result of a joiner style sits at this offset
Start(ws, k) == SumLen(ws, k - 1) + k

JoinedAs(res, ws, F(_), sep) ==
  IF Len(ws) = 0 THEN res = << >>
  ELSE /\ Len(res) = SumLen(ws, Len(ws)) + Len(ws) - 1
       /\ \A k \in 1..Len(ws) :
            /\ \A j \in 1..Len(ws[k]) : res[Start(ws, k) + j - 1] = F(ws[k][j])
            /\ k > 1 => res[Start(ws, k) - 1] = sep

\* ------------------------------------------------------------------ C1
\* C1: camelCase(s) is the unjoined concatenation of the words of
\* splitWords(s), the first lower-cased and each later one with its first
\* character upper-cased and the rest lower-cased; pascalCase(s) also
\* capitalizes the first word; the original case of the words has no other
\* influence (lower-casing the words first gives the same result).
C1_CamelPascalTable ==
  (Called /\ IsAscii(input)) =>
    /\ op = "camelCase" =>
         /\ result = Flatten(TableWords(words, FALSE, TRUE))
         /\ camelCase(join(mapLower(words), <<" ">>)) = result
    /\ op = "pascalCase" =>
         /\ result = Flatten(TableWords(words, TRUE, TRUE))
         /\ pascalCase(join(mapLower(words), <<" ">>)) = result

C1_Witness ==
  /\ op = "camelCase"
  /\ input = <<"A", "-", "B", "B">>
  /\ words = << <<"A">>, <<"B", "B">> >>
  /\ result = <<"a", "B", "b">>

\* ------------------------------------------------------------------ C2
\* C2: snakeCase(s) is the words of splitWords(s) lower-cased and joined by
\* '_', kebabCase(s) the same joined by '-', screamingSnakeCase(s) the words
\* upper-cased and joined by '_'.
C2_JoinerStyles ==
  (Called /\ IsAscii(input)) =>
    /\ op = "snakeCase" => JoinedAs(result, words, LowerOf, "_")
    /\ op = "kebabCase" => JoinedAs(result, words, LowerOf, "-")
    /\ op = "screamingSnakeCase" => JoinedAs(result, words, UpperOf, "_")

C2_Witness ==
  /\ op = "screamingSnakeCase"
  /\ input = <<"a", "B", "1", "b">>
  /\ words = << <<"a">>, <<"B", "1", "b">> >>
  /\ result = <<"A", "_", "B", "1", "B">>

\* ------------------------------------------------------------------ C3
\* C3: wherever a lowercase letter is immediately followed by an uppercase
\* letter, splitWords places a word boundary between the two, at every such
\* position and whatever the acronym rule does nearby.
C3_LowerUpperBoundary ==
  Called =>
    \A i \in 1..(Len(input) - 1) :
      (input[i] \in LowerAZ /\ input[i + 1] \in UpperAZ) =>
        Rank(input, i) \in Cuts(words)

C3_Witness ==
  /\ Called
  /\ input = <<"a", "A", "B", "b">>
  /\ words = << <<"a">>, <<"A">>, <<"B", "b">> >>

\* ------------------------------------------------------------------ C4
\* C4: every maximal run of two or more uppercase letters that is
\* immediately followed by a lowercase letter gets exactly one boundary
\* inside it, immediately before its last uppercase letter.
IsUpperRun(s, p, q) ==
  /\ p <= q
  /\ \A i \in p..q : s[i] \in UpperAZ
  /\ (p = 1 \/ s[p - 1] \notin UpperAZ)
  /\ (q = Len(s) \/ s[q + 1] \notin UpperAZ)

CutsInside(s, ws, p, q) ==
  {r \in Cuts(ws) : Rank(s, p) <= r /\ r < Rank(s, q)}

C4_AcronymBoundary ==
  Called =>
    /\ \A p \in 1..Len(input) : \A q \in (p + 1)..(Len(input) - 1) :
         (IsUpperRun(input, p, q) /\ input[q + 1] \in LowerAZ) =>
           CutsInside(input, words, p, q) = {Rank(input, q) - 1}
    /\ (op = "pascalCase" /\ input = <<"A", "B", "B", "a">>) =>
         result = <<"A", "b", "B", "a">>

C4_Witness ==
  /\ op = "pascalCase"
  /\ input = <<"A", "B", "B", "a">>
  /\ words = << <<"A", "B">>, <<"B", "a">> >>

\* ------------------------------------------------------------------ C5
\* C5: a maximal run of uppercase letters that is not immediately followed
\* by a lowercase letter is never split; an all-uppercase input is one
\* word, and lowercase letters followed by an uppercase run ending the
\* input give exactly two words.
C5_UpperRunKept ==
  Called =>
    /\ \A p \in 1..Len(input) : \A q \in p..Len(input) :
         (IsUpperRun(input, p, q)
            /\ (q = Len(input) \/ input[q + 1] \notin LowerAZ)) =>
           CutsInside(input, words, p, q) = {}
    /\ (input # << >> /\ \A i \in 1..Len(input) : input[i] \in UpperAZ) =>
         words = <<input>>
    /\ input = <<"a", "b", "A", "B">> => words = << <<"a", "b">>, <<"A", "B">> >>

C5_Witness ==
  /\ Called
  /\ input = <<"a", "A", "B", "1">>
  /\ words = << <<"a">>, <<"A", "B", "1">> >>

\* ------------------------------------------------------------------ C6
\* C6: digits and symbols never trigger a word boundary: for an input
\* without space, '-' or '_', every boundary between two consecutive words
\* lies between two letters, and the non-letter characters of the input
\* appear in the result of every style conversion in their literal form.
NonLetters(s) == SelectSeq(s, LAMBDA c : c \notin Letters)

NonLettersNorJoiners(s) ==
  SelectSeq(s, LAMBDA c : c \notin (Letters \cup Delimiters))

C6_OthersNeverSplit ==
  (Called /\ \A i \in 1..Len(input) : input[i] \notin Delimiters) =>
    /\ \A k \in 1..(Len(words) - 1) :
         /\ words[k][Len(words[k])] \in Letters
         /\ words[k + 1][1] \in Letters
    /\ NonLettersNorJoiners(result) = NonLetters(input)

\* ------------------------------------------------------------------ C7
\* C7: space, hyphen and underscore are the only characters splitWords
\* consumes; every other non-letter character, a tab included, stays inside
\* its word and appears in the result of each of the five conversions.
Tabs(s) == SelectSeq(s, LAMBDA c : c = Tab)

C7_OnlyThreeDelimiters ==
  Called =>
    /\ Flatten(words) = SelectSeq(input, LAMBDA c : c \notin Delimiters)
    /\ Tabs(result) = Tabs(input)

\* ------------------------------------------------------------------ C8
\* C8: for each of the five conversions, putting one more delimiter next to
\* a delimiter of the input, replacing a delimiter by another one, or adding
\* a delimiter at the start or the end leaves the result unchanged; an input
\* made only of delimiters gives the empty string.
InsertAt(s, i, d) == SubSeq(s, 1, i) \o <<d>> \o SubSeq(s, i + 1, Len(s))

ReplaceAt(s, i, d) == [s EXCEPT ![i] = d]

C8_DelimiterCollapsing ==
  Called =>
    /\ \A d \in Delimiters :
         /\ Conv(op, <<d>> \o input) = result
         /\ Conv(op, input \o <<d>>) = result
         /\ \A i \in 1..Len(input) :
              input[i] \in Delimiters =>
                /\ Conv(op, InsertAt(input, i, d)) = result
                /\ Conv(op, ReplaceAt(input, i, d)) = result
    /\ (\A i \in 1..Len(input) : input[i] \in Delimiters) => result = << >>

C8_Witness ==
  /\ op = "camelCase"
  /\ input = <<"a", "-", "-", "b">>
  /\ result = <<"a", "B">>
  /\ camelCase(<<"a", "-", "b">>) = result

\* ------------------------------------------------------------------ C9
\* C9: every word returned by splitWords is non-empty and contains no
\* space, '-' or '_'.
C9_WordsNonEmptyNoDelimiter ==
  Called =>
    \A k \in 1..Len(words) :
      /\ Len(words[k]) > 0
      /\ \A j \in 1..Len(words[k]) : words[k][j] \notin Delimiters

C9_Witness ==
  /\ Called
  /\ input = <<"-", "a", "_", " ">>
  /\ words = << <<"a">> >>

\* ----------------------------------------------------------------- C10
\* C10: for an input over letters, digits, space, '-' and '_', the words of
\* splitWords concatenated in order are the input with every space, '-' and
\* '_' deleted: nothing is lost, added, reordered or re-cased.
C10_SplitKeepsContent ==
  (Called /\ IsAscii(input)) =>
    Flatten(words) = SelectSeq(input, LAMBDA c : c \notin Delimiters)

C10_Witness ==
  /\ Called
  /\ input = <<"b", "A", "-", "1">>
  /\ words = << <<"b">>, <<"A">>, <<"1">> >>

\* ----------------------------------------------------------------- C11
\* C11: camelCase and pascalCase are idempotent on their own output:
\* converting the result again gives the result.
C11_CamelPascalIdempotent ==
  op \in {"camelCase", "pascalCase"} => Conv(op, result) = result

\* ----------------------------------------------------------------- C12
\* C12: snakeCase, kebabCase and screamingSnakeCase are idempotent on their
\* own output, for every input over letters, digits, space, '-' and '_'.
JoinerStyles == {"snakeCase", "kebabCase", "screamingSnakeCase"}

C12_JoinerStylesIdempotent ==
  (op \in JoinerStyles /\ IsAscii(input)) => Conv(op, result) = result

C12_Witness ==
  /\ op = "snakeCase"
  /\ input = <<"a", "B", "-", "A">>
  /\ result = <<"a", "_", "b", "_", "a">>
  /\ snakeCase(result) = result

EndsWithAny(s, suffixes) == \E suf \in suffixes : endsWith(s, suf)

EsEndings == {<<"s">>, <<"x">>, <<"z">>, <<"c", "h">>, <<"s", "h">>}

AllButLast(s, n) == SubSeq(s, 1, Len(s) - n)

C14_PluralizeRules ==
  (op = "pluralize" /\ input # << >>) =>
    /\ endsWith(input, <<"y">>) =>
         result = AllButLast(input, 1) \o <<"i", "e", "s">>
    /\ (~endsWith(input, <<"y">>) /\ EndsWithAny(input, EsEndings)) =>
         result = input \o <<"e", "s">>
    /\ (~endsWith(input, <<"y">>) /\ ~EndsWithAny(input, EsEndings)) =>
         result = input \o <<"s">>

C14_Witness ==
  /\ op = "pluralize"
  /\ input = <<"a", "i", "z">>
  /\ result = <<"a", "i", "z", "e", "s">>

\* ----------------------------------------------------------------- C15
\* C15: for a non-empty s, singularize (1) replaces a trailing 'ies' by 'y'
\* when s is longer than 3; else (2) strips a trailing 'es' when s is longer
\* than 2 and the two characters before it are 'ch', 'sh' or 'ss' or the
\* one character before it is 's', 'x' or 'z'; else (3) strips a trailing
\* 's' when s is longer than 1; else (4) returns s.
Rule1(s) == endsWith(s, <<"i", "e", "s">>) /\ Len(s) > 3

Rule2(s) ==
  /\ endsWith(s, <<"e", "s">>)
  /\ Len(s) > 2
  /\ \/ EndsWithAny(s, {<<"c", "h", "e", "s">>, <<"s", "h", "e", "s">>,
                         <<"s", "s", "e", "s">>})
     \/ EndsWithAny(s, {<<"s", "e", "s">>, <<"x", "e", "s">>,
                         <<"z", "e", "s">>})

Rule3(s) == endsWith(s, <<"s">>) /\ Len(s) > 1

IsLowerWord(s) == Len(s) > 0 /\ \A i \in 1..Len(s) : s[i] \in LowerAZ

C16_RoundTripAll ==
  (op = "pluralize" /\ IsLowerWord(input)) => singularize(result) = input

\* C16 as amended: singularize undoes pluralize for every non-empty string
\* of lowercase letters other than "y" that does not end with 'se', 'xe',
\* 'ze', 'che' or 'she', nor with 'ie' after at least one more character.
NoRoundTrip(s) ==
  \/ s = <<"y">>
  \/ EndsWithAny(s, {<<"s", "e">>, <<"x", "e">>, <<"z", "e">>,
                     <<"c", "h", "e">>, <<"s", "h", "e">>})
  \/ (endsWith(s, <<"i", "e">>) /\ Len(s) > 2)

C16_RoundTripRegular ==
  (op = "pluralize" /\ IsLowerWord(input) /\ ~NoRoundTrip(input)) =>
    singularize(result) = input

C16_Witness ==
  /\ op = "pluralize"
  /\ input = <<"a", "s", "s">>
  /\ result = <<"a", "s", "s", "e", "s">>
  /\ singularize(result) = input

\* ----------------------------------------------------------------- C17
\* C17: each of the eleven operations returns the empty string when given
\* the empty string.
C17_EmptyInEmptyOut ==
  (op # "none" /\ input = << >>) => result = << >>

C17_Witness ==
  /\ op = "pluralize"
  /\ input = << >>
  /\ result = << >>

\* ----------------------------------------------------------------- C18
\* C18: capitalize(s) is the uppercase of the first character followed by
\* the rest of s unmodified, uncapitalize(s) the lowercase of the first
\* character followed by the rest unmodified; a string whose first character
\* is not a letter is returned unchanged.
FirstMapped(res, s, F(_)) ==
  /\ Len(res) = Len(s)
  /\ s # << >> => res[1] = F(s[1])
  /\ \A i \in 2..Len(s) : res[i] = s[i]
  /\ (s # << >> /\ s[1] \notin Letters) => res = s

C18_FirstCharacterOnly ==
  /\ op = "capitalize" => FirstMapped(result, input, UpperOf)
  /\ op = "uncapitalize" => FirstMapped(result, input, LowerOf)

C18_Witness ==
  /\ op = "capitalize"
  /\ input = <<"A", "B", "a", "B">>
  /\ result = input

\* ----------------------------------------------------------------- C19
\* C19: pluralize and singularize act on the trailing characters only:
\* pluralize(s) starts with s minus its last character, singularize(s) with
\* s minus its last three characters, and what precedes the trailing
\* characters (delimiters and case boundaries included) has no effect.
IsPrefix(pre, s) == Len(pre) <= Len(s) /\ SubSeq(s, 1, Len(pre)) = pre

C19_TrailingCharactersOnly ==
  /\ op = "pluralize" =>
       /\ IsPrefix(slice(input, 0, -1), result)
       /\ Len(input) >= 2 =>
            \A c \in SuffixChars : pluralize(<<c>> \o input) = <<c>> \o result
  /\ op = "singularize" =>
       /\ IsPrefix(slice(input, 0, -3), result)
       /\ Len(input) >= 4 =>
            \A c \in SuffixChars : singularize(<<c>> \o input) = <<c>> \o result

C19_Witness ==
  /\ op = "pluralize"
  /\ input = <<"s", "_", "A", "e">>
  /\ result = <<"s", "_", "A", "e", "s">>

\* ----------------------------------------------------------------- C20
\* C20: the runtime conversions agree with their declared return types:
\* splitWords(s) is the word sequence Words<s>, and each style conversion
\* returns the string its type computes.
TypeOf(style, S) ==
  CASE style = "camelCase" -> CamelCaseType(S)
    [] style = "pascalCase" -> PascalCaseType(S)
    [] style = "snakeCase" -> SnakeCaseType(S)
    [] style = "kebabCase" -> KebabCaseType(S)
    [] style = "screamingSnakeCase" -> ScreamingSnakeCaseType(S)

C20_RuntimeMatchesTypes ==
  Called =>
    /\ words = Words(input)
    /\ result = TypeOf(op, input)

\* ----------------------------------------------------------------- C21
\* C21: the runtime suffix engines agree with their declared return types:
\* pluralize(s) is the string Pluralize<s> and singularize(s) the string
\* Singularize<s>, for every s, the empty string and the strings of length
\* 1 to 3 such as "s", "es" and "ies" included.
C21_SuffixMatchesTypes ==
  /\ op = "pluralize" => result = PluralizeType(input)
  /\ op = "singularize" => result = SingularizeType(input)

\* ----------------------------------------------------------------- C23
\* C23: for every string s of lowercase letters that ends with 's', 'x',
\* 'z', 'ch' or 'sh', singularize(pluralize(s)) is s.
C23_RoundTripEs ==
  (op = "pluralize" /\ IsLowerWord(input) /\ EndsWithAny(input, EsEndings)) =>
    singularize(result) = input

C23_Witness ==
  /\ op = "pluralize"
  /\ input = <<"a", "x">>
  /\ result = <<"a", "x", "e", "s">>
  /\ singularize(result) = input

\* ----------------------------------------------------------------- C24
\* C24: for every string s of lowercase letters that ends with 'y',
\* singularize(pluralize(s)) is s.
C24_RoundTripY ==
  (op = "pluralize" /\ IsLowerWord(input) /\ endsWith(input, <<"y">>)) =>
    singularize(result) = input

JoinerOf(style) == IF style = "kebabCase" THEN "-" ELSE "_"

CountOf(s, c) == Cardinality({i \in 1..Len(s) : s[i] = c})

\* the result never starts or ends with the joiner, has no two joiners in a
\* row, no other delimiter, and no letter of the wrong case
ShapedAs(res, style) ==
  LET j == JoinerOf(style)
  IN /\ res # << >> => (res[1] # j /\ res[Len(res)] # j)
     /\ \A i \in 1..(Len(res) - 1) : ~(res[i] = j /\ res[i + 1] = j)
     /\ \A i \in 1..Len(res) :
          /\ res[i] \notin (Delimiters \ {j})
          /\ style = "screamingSnakeCase" => res[i] \notin LowerAZ
          /\ style # "screamingSnakeCase" => res[i] \notin UpperAZ

\* C27 as stated: for an input over ASCII letters, digits, space, '-' and
\* '_', the result of snakeCase, kebabCase and screamingSnakeCase has the
\* shape above, and its number of joiners is the number of words minus one.
C27_JoinerShapeAll ==
  (op \in JoinerStyles /\ IsAscii(input)) =>
    /\ ShapedAs(result, op)
    /\ CountOf(result, JoinerOf(op)) = Len(words) - 1

\* C27 as amended: the result has the shape above; its number of joiners is
\* the number of words minus one when the input has at least one word, and
\* the result is empty when it has none.
C27_JoinerShape ==
  (op \in JoinerStyles /\ IsAscii(input)) =>
    /\ ShapedAs(result, op)
    /\ Len(words) > 0 => CountOf(result, JoinerOf(op)) = Len(words) - 1
    /\ Len(words) = 0 => result = << >>

C27_Witness ==
  /\ op = "screamingSnakeCase"
  /\ input = <<"-", "a", " ", "b">>
  /\ words = << <<"a">>, <<"b">> >>
  /\ result = <<"A", "_", "B">>

\* ----------------------------------------------------------------- C28
\* C28: for every s, pascalCase(s) is capitalize(camelCase(s)) and
\* camelCase(s) is uncapitalize(pascalCase(s)); neither result contains a
\* space, '-' or '_'.
NoDelimiter(s) == \A i \in 1..Len(s) : s[i] \notin Delimiters

C28_CamelPascalFirstCharacter ==
  /\ op = "camelCase" =>
       /\ result = uncapitalize(pascalCase(input))
       /\ pascalCase(input) = capitalize(result)
       /\ NoDelimiter(result)
  /\ op = "pascalCase" =>
       /\ result = capitalize(camelCase(input))
       /\ camelCase(input) = uncapitalize(result)
       /\ NoDelimiter(result)

C28_Witness ==
  /\ op = "pascalCase"
  /\ input = <<"a", "B", "-", "b">>
  /\ result = <<"A", "B", "B">>
  /\ camelCase(input) = <<"a", "B", "B">>

\* ----------------------------------------------------------------- C25
\* C25: for every input over ASCII letters, digits, space, '-' and '_', and
\* every finite sequence of snakeCase, kebabCase and screamingSnakeCase
\* applied one after the other to it, the final result is the last
\* conversion of the sequence applied directly to the input.
C25_JoinerPathIndependence ==
  (op \in JoinerStyles /\ IsAscii(orig)) => result = Conv(op, orig)

C25_Witness ==
  /\ orig = <<"a", "B", "1">>
  /\ input = <<"A", "_", "B", "1">>
  /\ op = "kebabCase"
  /\ result = <<"a", "-", "b", "1">>

\* ----------------------------------------------------------------- C26
\* C26: for every input over ASCII letters, digits, space, '-' and '_',
\* after any finite sequence of the five style conversions the result with
\* every space, '-' and '_' deleted and then lower-cased equals the input
\* with those characters deleted and then lower-cased.
IsContent(c) == c \notin Delimiters

Content(s) == [i \in 1..Len(SelectSeq(s, IsContent)) |->
                 LowerOf(SelectSeq(s, IsContent)[i])]

C26_ChainKeepsContent ==
  (Called /\ IsAscii(orig)) => Content(result) = Content(orig)

C26_Witness ==
  /\ orig = <<"a", "-", "B">>
  /\ input = <<"a", "B">>
  /\ op = "snakeCase"
  /\ result = <<"a", "_", "b">>

\* ----------------------------------------------------------------- C22
\* the value the function returns when called alone
Alone(name, s) ==
  CASE name \in Styles -> Conv(name, s)
    [] name = "uppercase" -> uppercase(s)
    [] name = "lowercase" -> lowercase(s)
    [] name = "capitalize" -> capitalize(s)
    [] name = "uncapitalize" -> uncapitalize(s)
    [] name = "pluralize" -> pluralize(s)
    [] name = "singularize" -> singularize(s)

\* C22: whatever the interleaving of the calls of several callers, each
\* call returns what the same call returns when made alone, a function of
\* its argument only, and the string it was given is never modified: from
\* entry on, the parameter of the call is the caller's argument.
C22_CallsDoNotInterfere ==
  \A c \in Callers :
    /\ callers[c].pc = "returned" =>
         callers[c].result = Alone(callers[c].op, callers[c].arg)
    /\ callers[c].pc # "idle" => frames[frameOf(c)].str = callers[c].arg

\* one call has returned while another, entered with a different argument,
\* is between its split and its return
C22_Witness ==
  /\ callers[1] = [arg |-> <<"a", "B">>, op |-> "snakeCase",
                   pc |-> "returned", result |-> <<"a", "_", "b">>]
  /\ callers[2].pc = "split"
  /\ callers[2].arg = <<"B", "_", "y">>
  /\ frames[2].words = << <<"B">>, <<"y">> >>

====
